---- MODULE Spec2Model ----
(***************************************************************************)
(* Model of include/ayan/core/service.h: RunResult, the service registry,  *)
(* ServiceManager (the execute stack), ServiceImpl (install / uninstall /  *)
(* serve) and ServiceSecheduler (the root dispatcher).                     *)
(*                                                                         *)
(* A service object is a record [type, inst, mgr]: its concrete Impl type, *)
(* a label telling instances of one type apart, and its own ServiceManager *)
(* stack_ (ServiceImpl::mgr_).  A stack_ is a std::map keyed by identity;  *)
(* it is modelled as the sequence of its entries in iteration order, so    *)
(* that key order and key uniqueness are properties of the code that       *)
(* maintains it, not of the representation.  Each entry owns its service,  *)
(* so a tree of services is a nested value.                                *)
(***************************************************************************)
EXTENDS Integers, Sequences, FiniteSets

VARIABLES
  root,       \* the ServiceSecheduler object the host drives
  stack_,     \* a ServiceManager driven directly through its public interface
  registry,   \* inner::all_available_services(): set of [name, ctor]
  phase,      \* "static_init" while SevRegister initialisers run, then "main"
  crashed,    \* the process has terminated abnormally
  last,       \* the last call made by the host: [op, key, arg, ret]
  log         \* the calls and hooks executed inside the last call, in order

vars == <<root, stack_, registry, phase, crashed, last, log>>

----------------------------------------------------------------------------
(* Bounds *)

\* statuses range over -MaxRet .. MaxRet
MaxRet == 1
\* instance labels the host gives to the services it constructs itself
MaxInst == 1

----------------------------------------------------------------------------
(* RunResult *)

NoSignaficantRet == 0

NoExtra == "none"
Extras == {NoExtra, "payload"}

Rets == (0 - MaxRet) .. MaxRet

\* RunResult(): ret = NoSignaficantRet, extra empty
RunResult == [ret |-> NoSignaficantRet, extra |-> NoExtra]

Res(r) == [ret |-> r, extra |-> NoExtra]

nothing == RunResult

ill(r) == r.ret = NoSignaficantRet
success(r) == r.ret > NoSignaficantRet
failed(r) == r.ret < NoSignaficantRet

\* every RunResult a caller can hand to replace
AllResults == [ret : Rets, extra : Extras]

----------------------------------------------------------------------------
(* Identities.  util::type_name<Impl>() gives one string per concrete      *)
(* type; strings are sequences of character codes, compared the way        *)
(* std::string_view's operator< compares them.                             *)

Types == {"Sched", "X", "Y", "E", "Par"}

\* "b", "a", "c", "ab", "ba"; X2 is an Impl outside Types whose name is that
\* of X (nothing in service.h keeps two Impls from sharing a name)
type_name(t) ==
  CASE t = "X" -> <<2>>
    [] t = "Y" -> <<1>>
    [] t = "E" -> <<3>>
    [] t = "Par" -> <<1, 2>>
    [] t = "Sched" -> <<2, 1>>
    [] t = "X2" -> <<2>>

\* a name no type has ("d")
NoSuchService == <<4>>

Names == {type_name(t) : t \in Types} \cup {NoSuchService}

RECURSIVE LexLess(_, _)
LexLess(a, b) ==
  IF b = <<>> THEN FALSE
  ELSE IF a = <<>> THEN TRUE
  ELSE IF a[1] # b[1] THEN a[1] < b[1]
  ELSE LexLess(Tail(a), Tail(b))

----------------------------------------------------------------------------
(* Service objects and stack entries *)

\* an empty Shared<ServiceConcept>
Null == [type |-> "null", inst |-> 0, mgr |-> <<>>]

\* std::make_shared<Impl>(): a new object, its mgr_ empty
New(t, i) == [type |-> t, inst |-> i, mgr |-> <<>>]

identity(o) == type_name(o.type)

\* ExecState{result, sev} stored under key
ExecState(key, result, sev) == [key |-> key, result |-> result, sev |-> sev]

Keys(stack) == {stack[i].key : i \in 1 .. Len(stack)}

KeySeq(stack) == [i \in 1 .. Len(stack) |-> stack[i].key]

\* std::map::find: the position of key's entry, 0 when there is none
Find(stack, key) ==
  IF \E i \in 1 .. Len(stack) : stack[i].key = key
  THEN CHOOSE i \in 1 .. Len(stack) : stack[i].key = key
  ELSE 0

At(stack, key) == stack[Find(stack, key)]

\* the number of entries that sort before key
Before(stack, key) == Cardinality({i \in 1 .. Len(stack) : LexLess(stack[i].key, key)})

\* a variant of operator[] for a container that keeps insertion order
Subscript_at_end(stack, key) ==
  IF Find(stack, key) # 0 THEN stack
  ELSE Append(stack, ExecState(key, RunResult, Null))

\* std::map::operator[]: key's entry is default-constructed when absent
Subscript(stack, key) ==
  IF Find(stack, key) # 0 THEN stack
  ELSE LET n == Before(stack, key) IN
       SubSeq(stack, 1, n) \o <<ExecState(key, RunResult, Null)>>
         \o SubSeq(stack, n + 1, Len(stack))

\* stack_[key] = state
Assign(stack, key, state) ==
  LET s == Subscript(stack, key) IN
  [s EXCEPT ![Find(s, key)] = [state EXCEPT !.key = key]]

----------------------------------------------------------------------------
(* The service registry *)

\* ServiceCreator<Sev>::create
ServiceCreator(t) == New(t, 0)

Registered(reg, name) == \E e \in reg : e.name = name

\* a variant of make_available that stores with insert_or_assign
make_available_assign(reg, t) ==
  {e \in reg : e.name # type_name(t)} \cup {[name |-> type_name(t), ctor |-> t]}

\* make_available<Sev>(): map.emplace(type_name<Sev>(), ServiceCreator<Sev>::create)
make_available(reg, t) ==
  IF Registered(reg, type_name(t)) THEN reg
  ELSE reg \cup {[name |-> type_name(t), ctor |-> t]}

\* all_available_services().at(name)
at(reg, name) == CHOOSE e \in reg : e.name = name

\* the first two statements of require(name): the creator at(name) is invoked;
\* the outcome is [sev, ok], and at() throwing out of the noexcept function
\* ends the process
construct(reg, name) ==
  IF ~Registered(reg, name) THEN [sev |-> Null, ok |-> FALSE]
  ELSE [sev |-> ServiceCreator(at(reg, name).ctor), ok |-> TRUE]

----------------------------------------------------------------------------
(* ServiceManager *)

\* a variant of add that leaves an entry already present alone
add_if_absent(stack, sev) ==
  IF Find(stack, identity(sev)) # 0 THEN stack
  ELSE Assign(stack, identity(sev), ExecState(identity(sev), RunResult, sev))

\* add(sev): stack_[sev->identity()] = ExecState{.result = RunResult{}, .sev = sev}
add(stack, sev) ==
  Assign(stack, identity(sev), ExecState(identity(sev), RunResult, sev))

\* require(name): the outcomes, as [stack, ok].  at() throws out of a noexcept
\* function when name is unknown, which terminates the process.  Otherwise
\*   stack_[sev->identity()] = ExecState{.sev = std::move(sev)}
\* evaluates its right operand first, so identity() is called through the
\* moved-from, empty sev: undefined.  The process dies, or the entry is stored
\* under the identity of the service as if sev had still been whole
require(stack, name, reg) ==
  IF ~Registered(reg, name) THEN {[stack |-> stack, ok |-> FALSE]}
  ELSE LET sev == ServiceCreator(at(reg, name).ctor) IN
       {[stack |-> stack, ok |-> FALSE],
        [stack |-> Assign(stack, identity(sev), ExecState(identity(sev), RunResult, sev)),
         ok |-> TRUE]}

\* a variant of replace that hands back the result it has just stored
replace_returns_newer(stack, key, newer) ==
  LET s == Subscript(stack, key) IN
  [stack |-> [s EXCEPT ![Find(s, key)].result = newer], ret |-> newer]

\* a variant of replace that looks key up with find and leaves a stack
\* without an entry for key alone
replace_known_only(stack, key, newer) ==
  IF Find(stack, key) = 0 THEN [stack |-> stack, ret |-> RunResult]
  ELSE [stack |-> [stack EXCEPT ![Find(stack, key)].result = newer],
        ret |-> stack[Find(stack, key)].result]

\* replace(key, newer): ret = std::move(stack_[key].result);
\* stack_[key].result = newer; return ret
replace(stack, key, newer) ==
  LET s == Subscript(stack, key)
      ret == s[Find(s, key)].result
      moved == [s EXCEPT ![Find(s, key)].result.extra = NoExtra]
      t == Subscript(moved, key)
  IN [stack |-> [t EXCEPT ![Find(t, key)].result = newer], ret |-> ret]

\* foreach(visit): std::for_each(stack_.begin(), stack_.end(), visit);
\* the positions of the entries in the order they are visited
foreach(stack) == [i \in 1 .. Len(stack) |-> i]

\* remove_all(): stack_.clear()
remove_all(stack) == <<>>

SelectSeqIdx(stack, keep) ==
  LET F[i \in 0 .. Len(stack)] ==
        IF i = 0 THEN <<>>
        ELSE IF i \in keep THEN Append(F[i - 1], stack[i]) ELSE F[i - 1]
  IN F[Len(stack)]

\* the entries of a stack that hold a service
WithService(stack) == SelectSeq(stack, LAMBDA st : st.sev # Null)

NullAt(stack) == {i \in 1 .. Len(stack) : stack[i].sev = Null}

\* remove(name): std::erase_if over every entry, comparing name with
\* state.sev->identity(); the outcomes are [stack, ret, ok].  Calling
\* identity() through an empty sev is undefined: the process dies, or the
\* comparison yields either answer
remove(stack, name) ==
  LET hit == {i \in 1 .. Len(stack) : stack[i].sev # Null /\ identity(stack[i].sev) = name}
      done(gone) == [stack |-> SelectSeqIdx(stack, (1 .. Len(stack)) \ gone),
                     ret |-> Cardinality(gone) >= 1, ok |-> TRUE]
  IN IF NullAt(stack) = {} THEN {done(hit)}
     ELSE {[stack |-> stack, ret |-> FALSE, ok |-> FALSE]}
            \cup {done(hit \cup g) : g \in SUBSET NullAt(stack)}

\* a variant of invalid_if that counts every entry it looks at
invalid_if_counts_visited(stack, matches) ==
  [stack |-> [i \in 1 .. Len(stack) |->
                IF i \in matches THEN [stack[i] EXCEPT !.result = RunResult]
                ELSE stack[i]],
   count |-> Len(stack)]

\* invalid_if(cond): reset the result of every entry in a given set of
\* positions (those where cond holds), counting them
invalid_if(stack, matches) ==
  [stack |-> [i \in 1 .. Len(stack) |->
                IF i \in matches THEN [stack[i] EXCEPT !.result = RunResult]
                ELSE stack[i]],
   count |-> Cardinality(matches)]

\* invalid_if(function<bool(RetCode)>): cond sees only s.result.ret
invalid_if_ret(stack, rets) ==
  invalid_if(stack, {i \in 1 .. Len(stack) : stack[i].result.ret \in rets})

\* invalid(name): cond is s.sev->identity() == name, undefined on an empty
\* sev as in remove; the outcomes are [stack, ret, ok]
invalid_name(stack, name) ==
  LET hit == {i \in 1 .. Len(stack) : stack[i].sev # Null /\ identity(stack[i].sev) = name}
      done(m) == [stack |-> invalid_if(stack, m).stack,
                  ret |-> invalid_if(stack, m).count > 0, ok |-> TRUE]
  IN IF NullAt(stack) = {} THEN {done(hit)}
     ELSE {[stack |-> stack, ret |-> FALSE, ok |-> FALSE]}
            \cup {done(hit \cup g) : g \in SUBSET NullAt(stack)}

\* an invalid() whose predicate holds of the failures only
invalid_failed_only(stack) ==
  invalid_if(stack, {i \in 1 .. Len(stack) : failed(stack[i].result)})

\* an invalid() whose predicate holds of the results that are not inert
invalid_skips_inert(stack) ==
  invalid_if(stack, {i \in 1 .. Len(stack) : ~ill(stack[i].result)})

\* invalid(): invalid_if of the predicate that is always true
invalid(stack) == invalid_if(stack, 1 .. Len(stack))

----------------------------------------------------------------------------
(* ServiceImpl<Impl> and the concrete services.  Every operation yields    *)
(* the set of its outcomes [obj, ret, log, ok]: the object afterwards, the *)
(* value returned, the events in order, and whether the process survived.  *)
(* Calling through an empty sev is undefined behaviour: the process dies   *)
(* (ok = FALSE), or the call comes back, with any value at all.            *)

Event(op, path, res) == [op |-> op, at |-> path, res |-> res]

Outcome(o, ret, lg, ok) == [obj |-> o, ret |-> ret, log |-> lg, ok |-> ok]

\* what a call through an empty sev may hand back
Garbage == [ret : Rets, extra : {NoExtra}]

\* Impl::usuage(super, self): the services an Impl adds, and through which
\* of its two arguments.  X, Y and E keep the default, which is empty, as does
\* ServiceSecheduler; Par adds a new Y through self and a new X through super
usuage(t) ==
  IF t = "Par"
  THEN <<[via |-> "self", type |-> "Y"], [via |-> "super", type |-> "X"]>>
  ELSE <<>>

\* install hands usuage &this->mgr_ as super and &impl->mgr_ as self: both
\* are the object's own mgr_
SuperOf(o) == "own"
SelfOf(o) == "own"

\* the object after usuage's calls from the i-th on
RECURSIVE declare(_, _)
declare(o, i) ==
  IF i > Len(usuage(o.type)) THEN o
  ELSE LET op == usuage(o.type)[i]
           target == IF op.via = "super" THEN SuperOf(o) ELSE SelfOf(o)
       IN IF target = "own"
          THEN declare([o EXCEPT !.mgr = add(o.mgr, New(op.type, 0))], i + 1)
          ELSE declare(o, i + 1)

RECURSIVE install(_, _)
RECURSIVE install_foreach(_, _, _, _)

\* install(bot): usuage, then install of every entry of mgr_, then load
install(o, path) ==
  install_foreach(declare(o, 1), 1, path,
                  <<Event("install", path, nothing), Event("usuage", path, nothing)>>)

install_foreach(o, i, path, lg) ==
  IF i > Len(o.mgr) THEN {Outcome(o, nothing, Append(lg, Event("load", path, nothing)), TRUE)}
  ELSE LET k == foreach(o.mgr)[i]
           state == o.mgr[k]
           at_k == Append(path, state.key)
       IN IF state.sev = Null
          THEN {Outcome(o, nothing, Append(lg, Event("null", at_k, nothing)), FALSE)}
                 \cup install_foreach(o, i + 1, path,
                                      Append(lg, Event("null", at_k, nothing)))
          ELSE UNION {IF ~r.ok
                      THEN {Outcome([o EXCEPT !.mgr[k].sev = r.obj], nothing, lg \o r.log, FALSE)}
                      ELSE install_foreach([o EXCEPT !.mgr[k].sev = r.obj], i + 1, path,
                                           lg \o r.log)
                      : r \in install(state.sev, at_k)}

RECURSIVE uninstall(_, _)
RECURSIVE uninstall_foreach(_, _, _, _)

\* uninstall(bot): uninstall of every entry of mgr_, then unload
uninstall(o, path) ==
  uninstall_foreach(o, 1, path, <<Event("uninstall", path, nothing)>>)

uninstall_foreach(o, i, path, lg) ==
  IF i > Len(o.mgr) THEN {Outcome(o, nothing, Append(lg, Event("unload", path, nothing)), TRUE)}
  ELSE LET k == foreach(o.mgr)[i]
           state == o.mgr[k]
           at_k == Append(path, state.key)
       IN IF state.sev = Null
          THEN {Outcome(o, nothing, Append(lg, Event("null", at_k, nothing)), FALSE)}
                 \cup uninstall_foreach(o, i + 1, path,
                                        Append(lg, Event("null", at_k, nothing)))
          ELSE UNION {IF ~r.ok
                      THEN {Outcome([o EXCEPT !.mgr[k].sev = r.obj], nothing, lg \o r.log, FALSE)}
                      ELSE uninstall_foreach([o EXCEPT !.mgr[k].sev = r.obj], i + 1, path,
                                             lg \o r.log)
                      : r \in uninstall(state.sev, at_k)}

RECURSIVE serve(_, _, _)
RECURSIVE run(_, _, _)
RECURSIVE run_foreach(_, _, _, _, _)

\* serve(bot, event): return mgr_.replace(identity(), impl->run(bot, event))
serve(o, ev, path) ==
  UNION {IF ~r.ok THEN {[r EXCEPT !.log = <<Event("serve", path, nothing)>> \o r.log]}
         ELSE LET rep == replace(r.obj.mgr, identity(r.obj), r.ret) IN
              {Outcome([r.obj EXCEPT !.mgr = rep.stack], rep.ret,
                       <<Event("serve", path, nothing)>> \o r.log
                         \o <<Event("run", path, r.ret), Event("ret", path, rep.ret)>>,
                       TRUE)}
         : r \in run(o, ev, path)}

\* Impl::run(bot, event).  ServiceSecheduler serves every entry of its mgr_
\* and returns RunResult::nothing(); X always fails with -1, Y always
\* succeeds with 1, E answers with the status the event carries, Par keeps
\* the default run, which returns RunResult{}
run(o, ev, path) ==
  CASE o.type = "Sched" -> run_foreach(o, 1, ev, path, <<>>)
    [] o.type = "X" -> {Outcome(o, Res(0 - 1), <<>>, TRUE)}
    [] o.type = "Y" -> {Outcome(o, Res(1), <<>>, TRUE)}
    [] o.type = "E" -> {Outcome(o, Res(ev), <<>>, TRUE)}
    [] OTHER -> {Outcome(o, RunResult, <<>>, TRUE)}

\* the visitor of ServiceSecheduler::run on the entries from the i-th on:
\* exec_state.result = exec_state.sev->serve(botptr, event)
run_foreach(o, i, ev, path, lg) ==
  IF i > Len(o.mgr) THEN {Outcome(o, nothing, lg, TRUE)}
  ELSE LET k == foreach(o.mgr)[i]
           state == o.mgr[k]
           at_k == Append(path, state.key)
       IN IF state.sev = Null
          THEN {Outcome(o, nothing, Append(lg, Event("null", at_k, nothing)), FALSE)}
                 \cup UNION {run_foreach([o EXCEPT !.mgr[k].result = g], i + 1, ev, path,
                                         Append(lg, Event("null", at_k, g)))
                             : g \in Garbage}
          ELSE UNION {IF ~r.ok
                      THEN {Outcome([o EXCEPT !.mgr[k].sev = r.obj], nothing, lg \o r.log, FALSE)}
                      ELSE run_foreach([o EXCEPT !.mgr[k].sev = r.obj, !.mgr[k].result = r.ret],
                                       i + 1, ev, path, lg \o r.log)
                      : r \in serve(state.sev, ev, at_k)}

----------------------------------------------------------------------------
(* The state machine *)

\* the record of a call: the operation, the identity and the RunResult it was
\* given, the service it was given or constructed, the RunResult, the
\* boolean and the count it returned (for invalid(), which returns nothing,
\* the count its invalid_if returned to it), the statuses its predicate holds
\* of; had tells whether the stack held an entry for key when
\* the call was made, again whether the call before it was a replace of key
\* (for remove_all: whether the stack held a service, and whether the call
\* before it was an install)
NoCall ==
  [op |-> "none", key |-> <<>>, arg |-> nothing, sev |-> Null, ret |-> nothing,
   bool |-> FALSE, count |-> 0, rets |-> {}, had |-> FALSE, again |-> FALSE]

\* the Impl types the host adds below the root dispatcher
ChildTypes == {"X", "Y", "E", "Par"}

\* the Impl types and keys used on the directly driven ServiceManager
MgrTypes == {"X", "Y"}
MgrKeys == {type_name(t) : t \in MgrTypes}
MgrNames == MgrKeys \cup {NoSuchService}

\* the predicates on the status handed to invalid_if: failed, ill, success
RetPreds == {{r \in Rets : r < NoSignaficantRet}, {NoSignaficantRet},
             {r \in Rets : r > NoSignaficantRet}}

Init ==
  /\ root = New("Sched", 0)
  /\ stack_ = <<>>
  /\ registry = {}
  /\ phase = "static_init"
  /\ crashed = FALSE
  /\ last = NoCall
  /\ log = <<>>

\* SevRegister<SevImpl>::registery(), run for every Impl before main
MakeAvailable(t) ==
  /\ phase = "static_init"
  /\ registry' = make_available(registry, t)
  /\ UNCHANGED <<root, stack_, phase, crashed, last, log>>

EnterMain ==
  /\ phase = "static_init"
  /\ \A t \in Types : Registered(registry, type_name(t))
  /\ phase' = "main"
  /\ UNCHANGED <<root, stack_, registry, crashed, last, log>>

Running == phase = "main" /\ ~crashed

\* ServiceSecheduler::add(sev) with a newly made service
CallAdd(t) ==
  /\ Running
  /\ root' = [root EXCEPT !.mgr = add(root.mgr, New(t, 0))]
  /\ last' = [NoCall EXCEPT !.op = "add", !.key = type_name(t), !.sev = New(t, 0),
                             !.had = Find(root.mgr, type_name(t)) # 0]
  /\ log' = <<>>
  /\ UNCHANGED <<stack_, registry, phase, crashed>>

\* require(name) on the root dispatcher's mgr_
CallRequire(name) ==
  /\ Running
  /\ \E r \in require(root.mgr, name, registry) :
       /\ root' = [root EXCEPT !.mgr = r.stack]
       /\ crashed' = ~r.ok
       /\ last' = [NoCall EXCEPT !.op = "require", !.key = name,
                                  !.sev = IF Registered(registry, name)
                                          THEN ServiceCreator(at(registry, name).ctor)
                                          ELSE Null,
                                  !.had = Find(root.mgr, name) # 0]
  /\ log' = <<>>
  /\ UNCHANGED <<stack_, registry, phase>>

CallInstall ==
  /\ Running
  /\ \E r \in install(root, <<>>) :
       /\ root' = r.obj
       /\ crashed' = ~r.ok
       /\ log' = r.log
       /\ last' = [NoCall EXCEPT !.op = "install"]
  /\ UNCHANGED <<stack_, registry, phase>>

CallUninstall ==
  /\ Running
  /\ \E r \in uninstall(root, <<>>) :
       /\ root' = r.obj
       /\ crashed' = ~r.ok
       /\ log' = r.log
       /\ last' = [NoCall EXCEPT !.op = "uninstall"]
  /\ UNCHANGED <<stack_, registry, phase>>

\* serve(bot, event) on the root dispatcher; ev is the status the event carries
CallServe(ev) ==
  /\ Running
  /\ \E r \in serve(root, ev, <<>>) :
       /\ root' = r.obj
       /\ crashed' = ~r.ok
       /\ log' = r.log
       /\ last' = [NoCall EXCEPT !.op = "serve", !.arg = Res(ev), !.ret = r.ret]
  /\ UNCHANGED <<stack_, registry, phase>>

\* invalid() on the root dispatcher's mgr_; had tells whether an entry held a
\* result that was not inert
CallInvalid ==
  /\ Running
  /\ root' = [root EXCEPT !.mgr = invalid(root.mgr).stack]
  /\ last' = [NoCall EXCEPT !.op = "invalid",
                             !.had = \E i \in 1 .. Len(root.mgr) : ~ill(root.mgr[i].result)]
  /\ log' = <<>>
  /\ UNCHANGED <<stack_, registry, phase, crashed>>

\* a remove_all() that uninstalls what it drops
remove_all_uninstalling(stack) ==
  [i \in 1 .. Len(stack) |-> Event("uninstall", <<stack[i].key>>, nothing)]

\* the calls remove_all() makes on the services of the entries it drops:
\* stack_.clear() releases them and calls nothing
remove_all_calls(stack) == <<>>

\* remove_all() on the root dispatcher's mgr_
CallRemoveAll ==
  /\ Running
  /\ root' = [root EXCEPT !.mgr = remove_all(root.mgr)]
  /\ log' = remove_all_calls(root.mgr)
  /\ last' = [NoCall EXCEPT !.op = "remove_all",
                             !.had = WithService(root.mgr) # <<>>,
                             !.again = (last.op = "install")]
  /\ UNCHANGED <<stack_, registry, phase, crashed>>

Next ==
  \/ \E t \in Types : MakeAvailable(t)
  \/ EnterMain
  \/ \E t \in ChildTypes : CallAdd(t)
  \/ \E name \in Names : CallRequire(name)
  \/ CallInstall
  \/ CallUninstall
  \/ \E ev \in Rets : CallServe(ev)
  \/ CallInvalid
  \/ CallRemoveAll

Spec == Init /\ [][Next]_vars

----------------------------------------------------------------------------
(* A ServiceManager driven directly through its public interface *)

MgrAdd(t, i) ==
  /\ Running
  /\ stack_' = add(stack_, New(t, i))
  /\ last' = [NoCall EXCEPT !.op = "add", !.key = type_name(t), !.sev = New(t, i),
                             !.had = Find(stack_, type_name(t)) # 0]
  /\ log' = <<>>
  /\ UNCHANGED <<root, registry, phase, crashed>>

MgrRequire(name) ==
  /\ Running
  /\ \E r \in require(stack_, name, registry) :
       /\ stack_' = r.stack
       /\ crashed' = ~r.ok
       /\ last' = [NoCall EXCEPT !.op = "require", !.key = name,
                                  !.sev = IF Registered(registry, name)
                                          THEN ServiceCreator(at(registry, name).ctor)
                                          ELSE Null,
                                  !.had = Find(stack_, name) # 0]
  /\ log' = <<>>
  /\ UNCHANGED <<root, registry, phase>>

MgrReplace(key, newer) ==
  /\ Running
  /\ stack_' = replace(stack_, key, newer).stack
  /\ last' = [NoCall EXCEPT !.op = "replace", !.key = key, !.arg = newer,
                             !.ret = replace(stack_, key, newer).ret,
                             !.had = Find(stack_, key) # 0,
                             !.again = (last.op = "replace" /\ last.key = key)]
  /\ log' = <<>>
  /\ UNCHANGED <<root, registry, phase, crashed>>

\* foreach with a visitor that notes the key and the result of what it is shown
MgrForeach ==
  /\ Running
  /\ log' = [i \in 1 .. Len(stack_) |->
               Event("visit", <<stack_[foreach(stack_)[i]].key>>,
                     stack_[foreach(stack_)[i]].result)]
  /\ last' = [NoCall EXCEPT !.op = "foreach"]
  /\ UNCHANGED <<root, stack_, registry, phase, crashed>>

MgrRemove(name) ==
  /\ Running
  /\ \E r \in remove(stack_, name) :
       /\ stack_' = r.stack
       /\ crashed' = ~r.ok
       /\ last' = [NoCall EXCEPT !.op = "remove", !.key = name, !.bool = r.ret]
  /\ log' = <<>>
  /\ UNCHANGED <<root, registry, phase>>

MgrRemoveAll ==
  /\ Running
  /\ stack_' = remove_all(stack_)
  /\ last' = [NoCall EXCEPT !.op = "remove_all"]
  /\ log' = <<>>
  /\ UNCHANGED <<root, registry, phase, crashed>>

MgrInvalid ==
  /\ Running
  /\ stack_' = invalid(stack_).stack
  /\ last' = [NoCall EXCEPT !.op = "invalid", !.count = invalid(stack_).count,
                             !.had = \E i \in 1 .. Len(stack_) : ~ill(stack_[i].result)]
  /\ log' = <<>>
  /\ UNCHANGED <<root, registry, phase, crashed>>

MgrInvalidName(name) ==
  /\ Running
  /\ \E r \in invalid_name(stack_, name) :
       /\ stack_' = r.stack
       /\ crashed' = ~r.ok
       /\ last' = [NoCall EXCEPT !.op = "invalid_name", !.key = name, !.bool = r.ret]
  /\ log' = <<>>
  /\ UNCHANGED <<root, registry, phase>>

\* invalid_if with a predicate on the status: one that holds of the statuses in rets
MgrInvalidIf(rets) ==
  /\ Running
  /\ stack_' = invalid_if_ret(stack_, rets).stack
  /\ last' = [NoCall EXCEPT !.op = "invalid_if", !.rets = rets,
                             !.count = invalid_if_ret(stack_, rets).count]
  /\ log' = <<>>
  /\ UNCHANGED <<root, registry, phase, crashed>>

MgrNext ==
  \/ \E t \in Types : MakeAvailable(t)
  \/ EnterMain
  \/ \E t \in MgrTypes, i \in 1 .. MaxInst : MgrAdd(t, i)
  \/ \E name \in MgrNames : MgrRequire(name)
  \/ \E key \in MgrKeys, newer \in AllResults : MgrReplace(key, newer)
  \/ MgrForeach
  \/ \E name \in MgrNames : MgrRemove(name)
  \/ MgrRemoveAll
  \/ MgrInvalid
  \/ \E name \in MgrNames : MgrInvalidName(name)
  \/ \E rets \in RetPreds : MgrInvalidIf(rets)

SpecMgr == Init /\ [][MgrNext]_vars

----------------------------------------------------------------------------
(* The registry on its own: registrations, also of Impls that share a     *)
(* name, and constructions by name                                         *)

RegTypes == Types \cup {"X2"}

\* make_available<Sev>(); had tells whether the name of Sev was registered
RegMakeAvailable(t) ==
  /\ ~crashed
  /\ registry' = make_available(registry, t)
  /\ last' = [NoCall EXCEPT !.op = "make_available", !.key = type_name(t),
                             !.sev = ServiceCreator(t),
                             !.had = Registered(registry, type_name(t))]
  /\ UNCHANGED <<root, stack_, phase, crashed, log>>

\* the construction of a service by name
RegConstruct(name) ==
  /\ ~crashed
  /\ crashed' = ~construct(registry, name).ok
  /\ last' = [NoCall EXCEPT !.op = "construct", !.key = name,
                             !.sev = construct(registry, name).sev,
                             !.had = Registered(registry, name)]
  /\ UNCHANGED <<root, stack_, registry, phase, log>>

RegNext ==
  \/ \E t \in RegTypes : RegMakeAvailable(t)
  \/ \E name \in Names : RegConstruct(name)

SpecReg == Init /\ [][RegNext]_vars

----------------------------------------------------------------------------
(* Properties *)

\* the events of the last call that happened directly below path p
Under(p) ==
  SelectSeq(log, LAMBDA e : Len(e.at) = Len(p) + 1 /\ SubSeq(e.at, 1, Len(p)) = p)

Only(events, ops) == SelectSeq(events, LAMBDA e : e.op \in ops)

\* the identities a sequence of events is about
KeysOf(events) == [i \in 1 .. Len(events) |-> events[i].at[Len(events[i].at)]]

Ascending(keys) ==
  \A i, j \in 1 .. Len(keys) : i < j => LexLess(keys[i], keys[j])

\* C1: in every serve call, on the dispatcher or on a child, the RunResult
\* serve returns is the RunResult run produced in that same call.
C1_ServeReturnsWhatRunProduced ==
  \A i \in 2 .. Len(log) :
    log[i].op = "ret" => log[i].res = log[i - 1].res

\* C2: when a serve call on the root dispatcher has completed, the entry of
\* every child in the dispatcher's stack holds the RunResult that child's run
\* produced during that call (X, which always returns -1, shows a failure; Y,
\* which always returns 1, shows a success).
C2_ChildEntriesHoldThisCallsResults ==
  (last.op = "serve" /\ ~crashed) =>
    \A i \in 1 .. Len(root.mgr) :
      root.mgr[i].sev # Null =>
        \E j \in 1 .. Len(log) :
          /\ log[j].op = "run"
          /\ log[j].at = <<root.mgr[i].key>>
          /\ root.mgr[i].result = log[j].res

\* C3: a serve call leaves the key set of the served service's own stack as
\* it was, for the root dispatcher and for each of its children.
C3_ServeLeavesOwnStackAlone ==
  [][last'.op = "serve" =>
       /\ Keys(root'.mgr) = Keys(root.mgr)
       /\ \A i \in 1 .. Len(root.mgr) :
            (root.mgr[i].sev # Null /\ Find(root'.mgr, root.mgr[i].key) # 0) =>
              Keys(At(root'.mgr, root.mgr[i].key).sev.mgr) = Keys(root.mgr[i].sev.mgr)]_vars

\* C4: in a serve call on the root dispatcher every child in its stack has
\* serve invoked exactly once, in ascending order of identity, whatever the
\* earlier children returned.
C4_EveryChildServedOnceInOrder ==
  last.op = "serve" =>
    KeysOf(Only(Under(<<>>), {"serve"})) = KeySeq(WithService(root.mgr))

\* C5: every serve call on the root dispatcher, the first and the later ones,
\* returns the inert RunResult.
C5_DispatcherReturnsInert ==
  last.op = "serve" => (~crashed /\ last.ret = nothing)

\* C6: install runs usuage first, then install of every entry of the stack
\* exactly once in ascending order of identity, and load after the last of
\* them has returned.
C6_InstallOrder ==
  last.op = "install" =>
    /\ Len(log) >= 3
    /\ log[1] = Event("install", <<>>, nothing)
    /\ log[2] = Event("usuage", <<>>, nothing)
    /\ KeysOf(Only(Under(<<>>), {"install"})) = KeySeq(root.mgr)
    /\ log[Len(log)] = Event("load", <<>>, nothing)
    /\ \A i \in 1 .. Len(log) - 1 : log[i] # Event("load", <<>>, nothing)

\* C7: uninstall invokes uninstall on every entry of the stack exactly once
\* and unload only after all of them have returned.
C7_UninstallOrder ==
  last.op = "uninstall" =>
    /\ Len(log) >= 2
    /\ KeysOf(Only(Under(<<>>), {"uninstall"})) = KeySeq(root.mgr)
    /\ log[Len(log)] = Event("unload", <<>>, nothing)
    /\ \A i \in 1 .. Len(log) - 1 : log[i] # Event("unload", <<>>, nothing)

\* C8: a stack never holds two entries for one identity, and after add or
\* require of a service the one entry for its identity references that
\* service with an inert cached result, also when the identity was present.
C8_OneEntryPerIdentity ==
  /\ \A i, j \in 1 .. Len(stack_) : stack_[i].key = stack_[j].key => i = j
  /\ (last.op \in {"add", "require"} /\ ~crashed) =>
       /\ Cardinality({i \in 1 .. Len(stack_) : stack_[i].key = identity(last.sev)}) = 1
       /\ At(stack_, identity(last.sev)) = ExecState(identity(last.sev), RunResult, last.sev)

\* an add that displaced the entry of another instance with a cached result
C8_Witness ==
  /\ last.op = "add"
  /\ last.had
  /\ last.sev.inst = 1
  /\ Len(stack_) = 2

\* C9: the entries of a stack are visited in ascending lexicographic order of
\* identity, whatever the order they were added in: the visits of install,
\* uninstall and serve on the root dispatcher are ascending, and a call that
\* completes has visited every entry.
C9_VisitsAscending ==
  LET visited == KeysOf(Only(Under(<<>>), {"install", "uninstall", "serve", "null"}))
  IN /\ Ascending(visited)
     /\ Ascending(KeySeq(root.mgr))
     /\ (last.op \in {"install", "uninstall"} /\ ~crashed) => visited = KeySeq(root.mgr)

\* the services b, a, c of the example, visited a, b, c
C9_Witness ==
  /\ last.op = "install"
  /\ ~crashed
  /\ KeysOf(Only(Under(<<>>), {"install"})) = <<type_name("Y"), type_name("X"), type_name("E")>>

\* C10: replace(id, R1) followed by replace(id, R2) returns R1 from the
\* second call and leaves R2 cached for id.
C10_ReplaceRoundTrip ==
  [][(last.op = "replace" /\ last'.op = "replace" /\ last'.key = last.key) =>
       /\ last'.ret = last.arg
       /\ At(stack_', last'.key).result = last'.arg]_vars

\* a second replace that returned a payload-carrying R1 different from R2
C10_Witness ==
  /\ last.op = "replace"
  /\ last.again
  /\ last.ret # last.arg
  /\ last.ret.ret # NoSignaficantRet
  /\ last.ret.extra # NoExtra
  /\ At(stack_, last.key).result = last.arg

\* C11: require of a name that is not in the registry is answered with an
\* error the caller can see: the process goes on and the stack is left as it
\* was.
C11_UnknownNameIsAnError ==
  [][(last'.op = "require" /\ ~Registered(registry, last'.key)) =>
       /\ ~crashed'
       /\ stack_' = stack_]_vars

\* C12: invalid() on a stack whose entries hold results left by serve calls
\* leaves every entry with an inert result (status 0) and leaves the
\* identities and the service of every entry as they were.
C12_InvalidMakesAllInert ==
  [][last'.op = "invalid" =>
       /\ Len(root.mgr') = Len(root.mgr)
       /\ \A i \in 1 .. Len(root.mgr) :
            /\ ill(root.mgr'[i].result)
            /\ root.mgr'[i].key = root.mgr[i].key
            /\ root.mgr'[i].sev = root.mgr[i].sev]_vars

\* an invalid() on a dispatcher with two children that had served, one of
\* them with a result that was not inert
C12_Witness ==
  /\ last.op = "invalid"
  /\ last.had
  /\ Len(WithService(root.mgr)) >= 2
  /\ \A i \in 1 .. Len(root.mgr) :
       /\ ill(root.mgr[i].result)
       /\ root.mgr[i].sev # Null => root.mgr[i].sev.mgr # <<>>

\* C13: in a stack that was only ever changed by add, require, install, serve,
\* uninstall, invalid and remove, never by a direct replace, every entry holds
\* a service, and the identity of that service is the entry's key: on the root
\* dispatcher and on every service below it.
C13_EveryEntryHoldsItsService ==
  LET Sound(stack) ==
        \A i \in 1 .. Len(stack) :
          stack[i].sev # Null /\ identity(stack[i].sev) = stack[i].key
  IN /\ Sound(root.mgr)
     /\ \A i \in 1 .. Len(root.mgr) :
          root.mgr[i].sev # Null => Sound(root.mgr[i].sev.mgr)

\* C14: replace(key, R) on a stack without an entry for key returns an inert
\* RunResult and leaves the stack with one more entry, under key, whose
\* result is R and whose service is null; the other entries are as they were.
C14_ReplaceOfUnknownKey ==
  [][(last'.op = "replace" /\ Find(stack_, last'.key) = 0) =>
       /\ last'.ret = RunResult
       /\ Len(stack_') = Len(stack_) + 1
       /\ At(stack_', last'.key) = ExecState(last'.key, last'.arg, Null)
       /\ SelectSeq(stack_', LAMBDA st : st.key # last'.key) = stack_]_vars

\* a replace that stored a payload-carrying result under a key that had no
\* entry, next to a service whose entry held a result
C14_Witness ==
  /\ last.op = "replace"
  /\ ~last.had
  /\ ~ill(last.arg)
  /\ last.arg.extra # NoExtra
  /\ At(stack_, last.key) = ExecState(last.key, last.arg, Null)
  /\ \E i \in 1 .. Len(stack_) : stack_[i].sev # Null /\ ~ill(stack_[i].result)

\* C15: invalid_if(pred) resets to inert the result of exactly the entries
\* pred holds of, returns the number of those entries, and leaves the results
\* of the other entries, every service and the identities as they were.
C15_InvalidIfResetsTheMatches ==
  [][last'.op = "invalid_if" =>
       LET matches == {i \in 1 .. Len(stack_) : stack_[i].result.ret \in last'.rets}
       IN /\ Len(stack_') = Len(stack_)
          /\ \A i \in 1 .. Len(stack_) :
               /\ stack_'[i].key = stack_[i].key
               /\ stack_'[i].sev = stack_[i].sev
               /\ stack_'[i].result = IF i \in matches THEN RunResult
                                      ELSE stack_[i].result
          /\ last'.count = Cardinality(matches)]_vars

\* an invalid_if that reset one entry and left another, whose result is not
\* inert, alone
C15_Witness ==
  /\ last.op = "invalid_if"
  /\ last.count = 1
  /\ NoSignaficantRet \notin last.rets
  /\ Len(stack_) = 2
  /\ \E i \in 1 .. Len(stack_) : ~ill(stack_[i].result) /\ stack_[i].result.extra # NoExtra

\* C16 as stated: the count of an invalid() call is the number of entries
\* whose result was not inert before the call.
C16_InvalidCountsTheNotInert ==
  [][last'.op = "invalid" =>
       last'.count = Cardinality({i \in 1 .. Len(stack_) : ~ill(stack_[i].result)})]_vars

\* C16, amended: the invalid_if that invalid() runs matches every entry, so
\* its count is the number of entries of the stack, those already inert
\* included, and every result is inert afterwards; invalid() itself hands no
\* count to its caller.
C16_InvalidCountsEveryEntry ==
  [][last'.op = "invalid" =>
       /\ last'.count = Len(stack_)
       /\ \A i \in 1 .. Len(stack_') : stack_'[i].result = RunResult]_vars

\* an invalid() on two entries, one of them with a result that was not inert
C16_Witness ==
  /\ last.op = "invalid"
  /\ last.had
  /\ last.count = 2
  /\ Len(stack_) = 2

\* C17: remove(name) returns true exactly when the stack held an entry for
\* name; afterwards the stack has no entry for name and every other entry is
\* as it was (the whole stack is, when there was no entry for name).
C17_RemoveTakesOutTheEntry ==
  [][last'.op = "remove" =>
       /\ ~crashed'
       /\ last'.bool = (Find(stack_, last'.key) # 0)
       /\ stack_' = SelectSeq(stack_, LAMBDA st : st.key # last'.key)]_vars

\* C18: remove_all() empties the stack and calls no lifecycle hook, uninstall
\* least of all, on a service it drops: children that were installed are
\* dropped without being uninstalled.
C18_RemoveAllCallsNoHook ==
  last.op = "remove_all" =>
    /\ root.mgr = <<>>
    /\ \A i \in 1 .. Len(log) :
         log[i].op \notin {"uninstall", "unload", "install", "usuage", "load", "serve", "run"}

\* a remove_all() right after the install of a dispatcher that held services
C18_Witness ==
  /\ last.op = "remove_all"
  /\ last.had
  /\ last.again
  /\ ~crashed
  /\ root.mgr = <<>>

\* C20: install hands usuage two different stacks, the parent's as super and
\* the service's own as self: after the install of a dispatcher that holds
\* Par, the service Par added through super (X) is in the dispatcher's stack
\* and not in Par's own, and it was not installed as a child of Par.
C20_SuperIsTheParentsStack ==
  (last.op = "install" /\ ~crashed /\ Find(root.mgr, type_name("Par")) # 0) =>
    LET par == At(root.mgr, type_name("Par")).sev IN
    /\ Find(root.mgr, type_name("X")) # 0
    /\ Find(par.mgr, type_name("X")) = 0
    /\ \A i \in 1 .. Len(log) :
         ~(log[i].op = "install" /\ log[i].at = <<type_name("Par"), type_name("X")>>)

\* C19: registering a creator under a name that is already in the registry
\* changes nothing: whatever is registered afterwards, a name keeps the
\* creator it was first registered with, and that creator is the one a
\* construction by that name invokes.
C19_FirstCreatorIsKept ==
  [][/\ \A e \in registry : e \in registry'
     /\ \A e, f \in registry' : e.name = f.name => e = f
     /\ (last'.op = "make_available" /\ Registered(registry, last'.key)) =>
          registry' = registry
     /\ (last'.op = "construct" /\ ~crashed') =>
          \E e \in registry :
            e.name = last'.key /\ last'.sev = ServiceCreator(e.ctor)]_vars

\* the registration of X under the name X2 had been registered with, which
\* the registry still maps to the creator of X2
C19_Witness ==
  /\ last.op = "make_available"
  /\ last.had
  /\ last.sev = ServiceCreator("X")
  /\ [name |-> type_name("X"), ctor |-> "X2"] \in registry
  /\ Cardinality(registry) >= 2

====
